---- MODULE Spec2Model ----
(***************************************************************************)
(* Model of xar-js: XarArchive (lib.ts), its Reader/Writer (io.ts) and the *)
(* helpers generate() and tableOfContentsXML() are built from.             *)
(*                                                                         *)
(* A Buffer is a sequence of runs and so is a JS string. A run             *)
(* [k, n, s, d, lo, hi] stands for the units (bytes of a Buffer,           *)
(* characters of a string) lo..hi of one value:                            *)
(*   k = "num"     the byte with the numeric value n                       *)
(*   k = "ch"      the character spelled s (UTF-8 width n)                 *)
(*   k = "utf8"    the UTF-8 encoding of the string d                      *)
(*   k = "src"     the content of the source file at path s                *)
(*   k = "sha1"    the SHA-1 digest of the Buffer d, 20 bytes              *)
(*   k = "hex"     the SHA-1 digest of the Buffer d as 40 hex digits       *)
(*   k = "sig"     the RSA-SHA1 signature of the Buffer d made with key s  *)
(*   k = "deflate" the deflate blocks that compress the Buffer d           *)
(*   k = "adler32" the Adler-32 trailer of a zlib stream                   *)
(* Library primitives (SHA-1, RSA, deflate, xml2js) are modelled by their  *)
(* contract: digests and signatures are injective in their input, deflate  *)
(* produces a zlib-framed stream that inflate inverts.                     *)
(***************************************************************************)
EXTENDS Integers, Sequences, FiniteSets, TLC

\* ------------------------------------------------------------------ bounds
\* Largest id a caller pre-assigns to a node before addFile().
MaxPresetId == 1
\* The longest PEM text, in lines, the certificate checks go through.
MaxPemLines == 6
\* The longest text tried as an additional certificate.
MaxExtraPemLines == 3

\* ------------------------------------------------------- program constants
XAR_HEADER_SIZE == 28
XAR_MAGIC == 2019652129
XAR_CHECKSUM_SHA1 == 1
RSA_SIGNATURE_SIZE == 256
\* digestSize(DigestAlgorithm.SHA1)
digestSize == 20
\* length of hasher.digest('hex') for SHA-1
HexDigestLen == 40

\* ------------------------------------------------------------ run helpers
Run(k, n, s, d, len) == [k |-> k, n |-> n, s |-> s, d |-> d, lo |-> 1, hi |-> len]
Num(n) == Run("num", n, "", <<>>, 1)
Tok(s) == Run("ch", 1, s, <<>>, 1)
RunLen(r) == r.hi - r.lo + 1

RECURSIVE Concat(_)
\* Flattens a sequence of sequences (successive writes, joined strings).
Concat(ss) ==
  IF Len(ss) = 0 THEN <<>>
  ELSE IF Len(ss) = 1 THEN ss[1]
  ELSE LET mid == Len(ss) \div 2
       IN  Concat(SubSeq(ss, 1, mid)) \o Concat(SubSeq(ss, mid + 1, Len(ss)))

RECURSIVE SumRuns(_, _, _)
\* Number of units in the runs from..to.
SumRuns(buf, from, to) ==
  IF from > to THEN 0
  ELSE IF from = to THEN RunLen(buf[from])
  ELSE LET mid == (from + to) \div 2
       IN  SumRuns(buf, from, mid) + SumRuns(buf, mid + 1, to)

\* Number of units in the first i runs.
LengthUpTo(buf, i) == SumRuns(buf, 1, i)

\* buf.length of a Buffer, str.length of a string.
Length(buf) == LengthUpTo(buf, Len(buf))

Min(a, b) == IF a < b THEN a ELSE b
Max(a, b) == IF a > b THEN a ELSE b

\* The part of the run r, which starts at unit `from` of its buffer, that
\* lies in [offset, stop).
Piece(r, from, offset, stop) ==
  IF from + RunLen(r) <= offset \/ from >= stop THEN <<>>
  ELSE << [r EXCEPT !.lo = @ + Max(0, offset - from),
                    !.hi = @ - Max(0, from + RunLen(r) - stop)] >>

RECURSIVE SliceRuns(_, _, _, _, _, _)
\* The units of [offset, stop) in the runs lo..hi of buf, the run lo
\* starting at unit `from`.
SliceRuns(buf, lo, hi, from, offset, stop) ==
  IF lo > hi THEN <<>>
  ELSE IF lo = hi THEN Piece(buf[lo], from, offset, stop)
  ELSE SliceRuns(buf, lo, (lo + hi) \div 2, from, offset, stop)
       \o SliceRuns(buf, ((lo + hi) \div 2) + 1, hi,
                    from + SumRuns(buf, lo, (lo + hi) \div 2), offset, stop)

\* The units [offset, offset + length) of buf, fewer when buf ends
\* before offset + length (Buffer.slice).
Slice(buf, offset, length) ==
  SliceRuns(buf, 1, Len(buf), 0, offset, Min(offset + length, Length(buf)))

\* ------------------------------------------------------------- ctype codec
\* Big-endian fixed width integer fields, as ctype writes them.
U16BE(v) == << Num((v \div 256) % 256), Num(v % 256) >>
U32BE(v) == << Num((v \div 16777216) % 256), Num((v \div 65536) % 256),
               Num((v \div 256) % 256), Num(v % 256) >>
\* A uint64_t is given to ctype as the pair [hi, lo] of 32-bit halves.
U64BE(hi, lo) == U32BE(hi) \o U32BE(lo)

IsNumBytes(bs) == \A i \in 1..Len(bs) : bs[i].k = "num"
RECURSIVE BEValue(_)
BEValue(bs) == IF bs = <<>> THEN 0
               ELSE BEValue(SubSeq(bs, 1, Len(bs) - 1)) * 256 + bs[Len(bs)].n
\* ctype.toAbs64([hi, lo]) = hi * 2^32 + lo
toAbs64(hi, lo) == hi * 65536 * 65536 + lo
\* ctype.toAbs64 throws from this high word on ("value would lose
\* precision due to rounding").
ToAbs64Limit == 1048576
\* Stands for every length no Buffer can have (2^30 and more).
BeyondBuffer == 1073741824
LosesPrecision == -2
\* toAbs64 of a 64-bit field given as its two words; -1 where a word has
\* no defined value.
Abs64OrLess(hi, lo) ==
  IF hi < 0 \/ lo < 0 THEN -1
  ELSE IF hi >= ToAbs64Limit THEN LosesPrecision
  ELSE IF hi > 0 \/ lo >= BeyondBuffer THEN BeyondBuffer
  ELSE toAbs64(hi, lo)

\* -------------------------------------------------- strings and UTF-8 text
RECURSIVE SumWidths(_, _, _)
\* Number of UTF-8 bytes of the characters in the runs from..to.
SumWidths(text, from, to) ==
  IF from > to THEN 0
  ELSE IF from = to THEN RunLen(text[from]) * text[from].n
  ELSE LET mid == (from + to) \div 2
       IN  SumWidths(text, from, mid) + SumWidths(text, mid + 1, to)

\* Number of bytes of the UTF-8 encoding of a string: each character
\* counts with its width.
Utf8Length(text) == SumWidths(text, 1, Len(text))

\* new Buffer(text, 'utf-8')
Utf8Encode(text) ==
  IF text = <<>> THEN <<>> ELSE << Run("utf8", 0, "", text, Utf8Length(text)) >>

\* buf.toString('utf-8'): a complete encoding decodes to its string, any
\* other run of bytes to U+FFFD characters.
Utf8Decode(buf) ==
  Concat([i \in 1..Len(buf) |->
            IF buf[i].k = "utf8" /\ buf[i].lo = 1 /\ buf[i].hi = Utf8Length(buf[i].d)
            THEN buf[i].d
            ELSE << Run("ch", 3, "U+FFFD", <<>>, RunLen(buf[i])) >>])

DigitChars == << "0", "1", "2", "3", "4", "5", "6", "7", "8", "9" >>
RECURSIVE NumText(_)
\* Decimal rendering of a non-negative integer by the XML builder.
NumText(v) == IF v < 10 THEN << Tok(DigitChars[v + 1]) >>
              ELSE NumText(v \div 10) \o << Tok(DigitChars[(v % 10) + 1]) >>

\* ------------------------------------------------------------------ crypto
\* createHash('sha1').update(data).digest(): 20 raw bytes.
Sha1(data) == << Run("sha1", 0, "", data, digestSize) >>

\* shasum(): the digest as a string of 40 hex digits.
shasum(data) == << Run("hex", 1, "", data, HexDigestLen) >>

\* Byte length of an RSA signature made with the key: the modulus size.
SignatureLength(key) == key.bits \div 8

\* createSign(..).update(data).sign(privateKey): the signature of data.
RsaSign(key, data) == << Run("sig", 0, key.name, data, SignatureLength(key)) >>

\* bufferEquals(a, b): same length and same bytes.
bufferEquals(a, b) == Length(a) = Length(b) /\ a = b

\* ------------------------------------------------------------- compression
\* pako.deflate(buf): a zlib stream, i.e. the two-byte zlib header
\* (0x78 0x9C), the deflate blocks and the four-byte Adler-32 trailer.
\* The blocks of the model are one block header byte, the literals and
\* one end-of-block byte.
ZlibHeader == << Num(120), Num(156) >>
ZlibTrailer == << Run("adler32", 0, "", <<>>, 4) >>
DeflateBlocks(buf) == << Run("deflate", 0, "", buf, Length(buf) + 2) >>

\* A compressor that writes the deflate blocks alone.
deflateRawSync(buf) == DeflateBlocks(buf)

deflateSync(buf) == ZlibHeader \o DeflateBlocks(buf) \o ZlibTrailer

\* TRUE when buf is a well-formed stream that pako.inflate accepts.
Inflatable(buf) ==
  /\ Len(buf) = 4
  /\ SubSeq(buf, 1, 2) = ZlibHeader
  /\ buf[3].k = "deflate"
  /\ << buf[3] >> = DeflateBlocks(buf[3].d)
  /\ << buf[4] >> = ZlibTrailer

\* pako.inflate(buf), for a stream it accepts.
inflateSync(buf) == buf[3].d

\* ---------------------------------------------------------------- io.ts
\* Content of the source files on disk, by path.
DiskLength(path) ==
  IF path = "/c" THEN 2 ELSE IF path \in { "/empty", "" } THEN 0 ELSE 1
Disk(path) == IF DiskLength(path) = 0 THEN <<>>
              ELSE << Run("src", 0, path, <<>>, DiskLength(path)) >>

\* What a byte of a Buffer allocated by new Buffer(length) may hold before
\* it is written: the memory is not initialised, two values stand for the
\* 256 possible ones.
FillBytes == { Num(0), Num(90) }

\* The Buffer after fs.readSync filled its first bytes with `got`.
Filled(got, length, fill) == got \o [i \in 1..(length - Length(got)) |-> fill]

\* FileReader.read returns the empty Buffer for length 0 without calling
\* fs.readSync.
CallsReadSync(length) == length # 0

\* FileReader.read(offset, length) on a file with the given content: a
\* Buffer of exactly `length` bytes; fs.readSync fills the part the file
\* has, the rest keeps what the allocation held.
FileReaderRead(content, offset, length, fill) ==
  IF CallsReadSync(length)
  THEN Filled(Slice(content, offset, length), length, fill)
  ELSE <<>>

\* A Reader over an in-memory buffer: returns the bytes that exist.
BufferReaderRead(content, offset, length) == Slice(content, offset, length)

\* new Buffer(length) in FileReader.read throws a RangeError for a length
\* no Buffer can have.
ReadThrows(kind, length) == kind = "file" /\ length >= BeyondBuffer

ReaderKinds == { "file", "buffer" }
\* reader.read(offset, length) for the two Reader implementations.
ReaderRead(kind, content, offset, length, fill) ==
  IF kind = "file" THEN FileReaderRead(content, offset, length, fill)
  ELSE BufferReaderRead(content, offset, length)

\* ------------------------------------------------------------ file forest
File == "file"
Directory == "directory"

\* The XarFile objects callers build (as util.walk does) and may hand to
\* addFile(): a directory with two files, and a single file.
Handles == 1..4
RootHandles == { 1, 4 }
NoOffset == -1

NewFileData(size) ==
  [ size |-> size, offset |-> NoOffset, length |-> NoOffset, data |-> <<>>,
    archivedChecksum |-> <<>>, extractedChecksum |-> <<>> ]

NewNode(name, type, srcPath, children, size) ==
  [ id |-> 0, name |-> name, type |-> type, srcPath |-> srcPath,
    children |-> children, data |-> NewFileData(size) ]

\* The name of the second file is a letter that takes two bytes in UTF-8.
WalkedNodes ==
  << NewNode(<<Tok("d")>>, Directory, "/d", <<2, 3>>, 0),
     NewNode(<<Tok("a")>>, File, "/d/a", <<>>, 1),
     NewNode(<<Run("ch", 2, "e-acute", <<>>, 1)>>, File, "/d/b", <<>>, 1),
     NewNode(<<Tok("c")>>, File, "/c", <<>>, 2) >>

\* Private keys: a 2048-bit and a 3072-bit RSA key.
Key2048 == [name |-> "key2048", bits |-> 2048]
Key3072 == [name |-> "key3072", bits |-> 3072]

\* PEM texts, as their lines (the text split at '\n').
LeafPem == << "content before cert", "-----BEGIN CERTIFICATE-----", "bGVhZg==",
              "-----END CERTIFICATE-----", "content after cert" >>
IntermediatePem == << "-----BEGIN CERTIFICATE-----", "aW50",
                      "-----END CERTIFICATE-----", "" >>
NoCertPem == << "not a certificate" >>

SignatureResourcesSet ==
  { [cert |-> LeafPem, privateKey |-> Key2048, additionalCerts |-> <<IntermediatePem>>],
    [cert |-> LeafPem, privateKey |-> Key3072, additionalCerts |-> <<>>],
    [cert |-> NoCertPem, privateKey |-> Key2048, additionalCerts |-> <<>>] }
NoSignature == [cert |-> <<>>, privateKey |-> [name |-> "", bits |-> 0],
                additionalCerts |-> <<>>]

RECURSIVE PreOrder(_, _), PreOrderAll(_, _)
\* walkFileTree: the handles visited from `h`, in visiting order.
PreOrder(ns, h) ==
  <<h>> \o (IF ns[h].type = Directory THEN PreOrderAll(ns, ns[h].children)
            ELSE <<>>)
\* children.forEach(child => walkFileTree(child, ...))
PreOrderAll(ns, cs) ==
  IF cs = <<>> THEN <<>> ELSE PreOrder(ns, Head(cs)) \o PreOrderAll(ns, Tail(cs))

\* A walk that passes the path joined from the names on the way down.
VisitPathJoined(ns, h) ==
  CASE ns[h].srcPath = "/d" -> "d"
    [] ns[h].srcPath = "/d/a" -> "d/a"
    [] ns[h].srcPath = "/d/b" -> "d/b"
    [] ns[h].srcPath = "/c" -> "c"
    [] OTHER -> ns[h].srcPath

\* The path walkFileTree passes to visit() with a node.
VisitPath(ns, h) == ns[h].srcPath

\* this.files.forEach(file => walkFileTree(file, ...))
WalkForest(ns, roots) == PreOrderAll(ns, roots)

Range(f) == { f[i] : i \in DOMAIN f }

\* ------------------------------------------------------------ PEM sections
BeginCertLines == { "-----BEGIN CERTIFICATE-----" }
EndCertLines == { "-----END CERTIFICATE-----" }

\* A line of text as characters; lines.join('\n').
LineText(line) == IF line = "" THEN <<>> ELSE << Tok(line) >>
RECURSIVE JoinLines(_)
JoinLines(lines) ==
  IF lines = <<>> THEN <<>>
  ELSE IF Len(lines) = 1 THEN LineText(lines[1])
  ELSE LineText(Head(lines)) \o << Tok("\\n") >> \o JoinLines(Tail(lines))

RECURSIVE SectionLinesOpen(_, _)
\* A scan that starts inside a section whatever the flag says.
SectionLinesOpen(lines, inSection) ==
  IF lines = <<>> THEN <<>>
  ELSE IF Head(lines) \in EndCertLines THEN <<>>
  ELSE IF Head(lines) \in BeginCertLines
       THEN SectionLinesOpen(Tail(lines), TRUE)
       ELSE << Head(lines) >> \o SectionLinesOpen(Tail(lines), TRUE)

RECURSIVE SectionLines(_, _)
\* The reduce() of extractPEMSection: the lines collected from `lines`
\* when the scan starts with the given inSection flag.
SectionLines(lines, inSection) ==
  IF lines = <<>> THEN <<>>
  ELSE LET line == Head(lines)
       IN  IF inSection
           THEN IF line \in EndCertLines
                THEN SectionLines(Tail(lines), FALSE)
                ELSE <<line>> \o SectionLines(Tail(lines), TRUE)
           ELSE IF line \in BeginCertLines
                THEN SectionLines(Tail(lines), TRUE)
                ELSE SectionLines(Tail(lines), FALSE)

extractPEMSection(cert) == JoinLines(SectionLines(cert, FALSE))

\* An extractCertSection that accepts every text.
CertSectionNeverMissing(pemFile) == FALSE

\* extractCertSection throws when the extracted text is empty.
CertSectionMissing(pemFile) == Length(extractPEMSection(pemFile)) = 0

\* --------------------------------------------------- generate(): passes 1-2
RECURSIVE ScanMaxID(_, _, _)
\* maxID = file.id ? Math.max(file.id, maxID) : maxID, over the walk.
ScanMaxID(ns, order, maxID) ==
  IF order = <<>> THEN maxID
  ELSE LET id == ns[Head(order)].id
       IN  ScanMaxID(ns, Tail(order),
                     IF id # 0 /\ id > maxID THEN id ELSE maxID)

\* A first walk that finds no id.
InitialMaxIDZero(ns, roots) == 0

\* The first walk of generate(): the largest id already present.
InitialMaxID(ns, roots) == ScanMaxID(ns, WalkForest(ns, roots), 0)

\* Bytes generate() reserves in the heap for the signature.
ReservedSignatureSize(signing) == IF signing THEN RSA_SIGNATURE_SIZE ELSE 0

\* A heap that starts right after the checksum, signed or not.
InitialHeapSizeUnsigned(signing) == digestSize

\* heapSize before the first file is placed.
InitialHeapSize(signing) == digestSize + ReservedSignatureSize(signing)

RECURSIVE AssignLoopCounting(_, _)
\* A second walk whose counter advances at every node, also at the nodes
\* that keep their id.
AssignLoopCounting(st, order) ==
  IF order = <<>> THEN st
  ELSE LET h == Head(order)
           fresh == st.nodes[h].id = 0
           maxID == st.maxID + 1
           ns == IF fresh THEN [st.nodes EXCEPT ![h].id = maxID] ELSE st.nodes
           isFile == ns[h].type = File
       IN  AssignLoopCounting(
             [ nodes |-> ns, maxID |-> maxID,
               fileList |-> IF isFile THEN Append(st.fileList, h) ELSE st.fileList,
               paths |-> IF isFile THEN Append(st.paths, VisitPath(ns, h))
                         ELSE st.paths ],
             Tail(order))

RECURSIVE AssignLoop(_, _)
\* The second walk: gives an id to each node that has none and collects
\* the files and the paths they were visited with.
AssignLoop(st, order) ==
  IF order = <<>> THEN st
  ELSE LET h == Head(order)
           fresh == st.nodes[h].id = 0
           maxID == IF fresh THEN st.maxID + 1 ELSE st.maxID
           ns == IF fresh THEN [st.nodes EXCEPT ![h].id = maxID] ELSE st.nodes
           isFile == ns[h].type = File
       IN  AssignLoop([ nodes |-> ns, maxID |-> maxID,
                        fileList |-> IF isFile THEN Append(st.fileList, h)
                                     ELSE st.fileList,
                        paths |-> IF isFile
                                  THEN Append(st.paths, VisitPath(ns, h))
                                  ELSE st.paths ],
                      Tail(order))

RECURSIVE InsertById(_, _, _)
InsertById(ns, sorted, h) ==
  IF sorted = <<>> THEN <<h>>
  ELSE IF ns[h].id < ns[Head(sorted)].id THEN <<h>> \o sorted
  ELSE <<Head(sorted)>> \o InsertById(ns, Tail(sorted), h)

RECURSIVE SortById(_, _, _)
SortById(ns, todo, sorted) ==
  IF todo = <<>> THEN sorted
  ELSE SortById(ns, Tail(todo), InsertById(ns, sorted, Head(todo)))

\* A fileList left in the order of the walk.
UnsortedFileList(ns, fileList) == fileList

\* fileList.sort((a, b) => a.id - b.id)
SortFileList(ns, fileList) == SortById(ns, fileList, <<>>)

\* The path handed to fileDataProvider for the file at `index` of the
\* sorted fileList.
ProviderPath(paths, index) == paths[index]

Event(op, h, path, data) == [op |-> op, h |-> h, path |-> path, data |-> data]

\* The payload stored for a file whose source bytes are sourceData, and
\* the two checksums recorded with it.
CompressedPayload(sourceData) == deflateSync(sourceData)
\* An archived checksum taken over the source bytes.
ArchivedChecksumOfSource(sourceData) == shasum(sourceData)
ArchivedChecksum(sourceData) == shasum(CompressedPayload(sourceData))
ExtractedChecksum(sourceData) == shasum(sourceData)

\* The FileData of a file placed at heapSize, from the bytes read and
\* their compressed form.
PlacedData(size, heapSize, sourceData, compressed) ==
  [ size |-> size, offset |-> heapSize, length |-> Length(compressed),
    data |-> compressed,
    archivedChecksum |-> ArchivedChecksum(sourceData),
    extractedChecksum |-> ExtractedChecksum(sourceData) ]

\* The body of the layout loop for a file without offset, once its
\* source bytes are read: the assertion, then the update of file.data
\* and heapSize.
PlaceFile(st, h, path, sourceData, calls) ==
  IF Length(sourceData) # st.nodes[h].data.size
  THEN [ st EXCEPT !.err = "assert: source length",
                   !.events = @ \o << Event("provide", h, path, <<>>) >> \o calls
                                \o << Event("read", h, path, sourceData) >> ]
  ELSE [ nodes |-> [ st.nodes EXCEPT ![h].data =
                       PlacedData(@.size, st.heapSize, sourceData,
                                  CompressedPayload(sourceData)) ],
         heapSize |-> st.heapSize + Length(CompressedPayload(sourceData)),
         events |-> st.events \o << Event("provide", h, path, <<>>) >> \o calls
                    \o << Event("read", h, path, sourceData) >>,
         err |-> "" ]

\* The fs.readSync calls of reader.read(0, length) on the Reader the
\* provider returned.
ReadSyncCalls(kind, h, path, length) ==
  IF kind = "file" /\ CallsReadSync(length)
  THEN << Event("readSync", h, path, <<>>) >> ELSE <<>>

\* let reader = fileDataProvider(path); reader.read(0, file.data.size).
\* new FileReader(path) throws when the path is undefined.
ReadSource(st, h, path, kind, fill) ==
  IF kind = "file" /\ path = ""
  THEN [ st EXCEPT !.err = "TypeError: path must be a string",
                   !.events = @ \o << Event("provide", h, path, <<>>) >> ]
  ELSE PlaceFile(st, h, path,
                 ReaderRead(kind, Disk(path), 0, st.nodes[h].data.size, fill),
                 ReadSyncCalls(kind, h, path, st.nodes[h].data.size))

RECURSIVE LayoutLoopAll(_, _, _, _, _, _)
\* A layout loop that places every file again, whatever offset it has.
LayoutLoopAll(st, fileList, paths, index, kind, fill) ==
  IF index > Len(fileList) \/ st.err # "" THEN st
  ELSE LayoutLoopAll(ReadSource(st, fileList[index], ProviderPath(paths, index),
                                kind, fill),
                     fileList, paths, index + 1, kind, fill)

RECURSIVE LayoutLoop(_, _, _, _, _, _)
\* fileList.forEach((file, index) => ...): reads, compresses and places
\* every file that has no offset yet. Stops at a failed assertion.
LayoutLoop(st, fileList, paths, index, kind, fill) ==
  IF index > Len(fileList) \/ st.err # "" THEN st
  ELSE IF st.nodes[fileList[index]].data.offset # NoOffset
  THEN LayoutLoop(st, fileList, paths, index + 1, kind, fill)
  ELSE LayoutLoop(ReadSource(st, fileList[index], ProviderPath(paths, index),
                             kind, fill),
                  fileList, paths, index + 1, kind, fill)

\* --------------------------------------------------- generate(): the TOC
NoData == [ offset |-> 0, size |-> 0, length |-> 0,
            archivedChecksum |-> <<>>, extractedChecksum |-> <<>> ]

RECURSIVE TocEntryError(_, _), TocEntriesError(_, _)
\* The first error xarFileTOCEntry(file) raises, "" when it returns.
TocEntryErrorUnasserted(ns, h) ==
  LET file == ns[h]
  IN  IF file.type = Directory THEN TocEntriesError(ns, file.children)
      ELSE IF file.data.offset = NoOffset THEN "Heap data missing"
      ELSE ""

TocEntryError(ns, h) ==
  LET file == ns[h]
  IN  IF file.id = 0 THEN "assert: file.id"
      ELSE IF file.name = <<>> THEN "assert: file.name"
      ELSE IF file.srcPath = "" THEN "assert: file.srcPath"
      ELSE IF file.type = Directory THEN TocEntriesError(ns, file.children)
      ELSE IF file.data.offset = NoOffset THEN "Heap data missing"
      ELSE IF file.data.archivedChecksum = <<>> THEN "Archived checksum missing"
      ELSE IF file.data.extractedChecksum = <<>> THEN "Extracted checksum missing"
      ELSE ""
\* files.map(xarFileTOCEntry): the error of the first entry that raises.
TocEntriesError(ns, hs) ==
  IF hs = <<>> THEN ""
  ELSE LET e == TocEntryError(ns, Head(hs))
       IN  IF e # "" THEN e ELSE TocEntriesError(ns, Tail(hs))

RECURSIVE xarFileTOCEntry(_, _), TocEntries(_, _)
\* An entry that declares size and length in each other's place.
xarFileTOCEntrySwapped(ns, h) ==
  LET file == ns[h]
  IN  [ id |-> file.id, name |-> file.name, type |-> file.type,
        file |-> IF file.type = Directory THEN TocEntries(ns, file.children)
                 ELSE <<>>,
        data |-> IF file.type = Directory THEN NoData
                 ELSE [ offset |-> file.data.offset,
                        size |-> file.data.length,
                        length |-> file.data.size,
                        archivedChecksum |-> file.data.archivedChecksum,
                        extractedChecksum |-> file.data.extractedChecksum ] ]

\* The TOC entry of a node, for a node xarFileTOCEntry accepts.
xarFileTOCEntry(ns, h) ==
  LET file == ns[h]
  IN  [ id |-> file.id, name |-> file.name, type |-> file.type,
        file |-> IF file.type = Directory THEN TocEntries(ns, file.children)
                 ELSE <<>>,
        data |-> IF file.type = Directory THEN NoData
                 ELSE [ offset |-> file.data.offset,
                        size |-> file.data.size,
                        length |-> file.data.length,
                        archivedChecksum |-> file.data.archivedChecksum,
                        extractedChecksum |-> file.data.extractedChecksum ] ]
TocEntries(ns, hs) ==
  IF hs = <<>> THEN <<>>
  ELSE << xarFileTOCEntry(ns, Head(hs)) >> \o TocEntries(ns, Tail(hs))

RECURSIVE EntryXML(_), EntriesXML(_)
\* The <file> element xml2js builds from an entry.
EntryXML(e) ==
  << Tok("<file id=") >> \o NumText(e.id) \o << Tok(">"), Tok("<name>") >>
  \o e.name \o << Tok("</name>"), Tok("<type>"), Tok(e.type), Tok("</type>") >>
  \o (IF e.type = Directory THEN EntriesXML(e.file)
      ELSE << Tok("<data>"), Tok("<offset>") >> \o NumText(e.data.offset)
           \o << Tok("</offset>"), Tok("<size>") >> \o NumText(e.data.size)
           \o << Tok("</size>"), Tok("<length>") >> \o NumText(e.data.length)
           \o << Tok("</length>"), Tok("<archived-checksum style=sha1>") >>
           \o e.data.archivedChecksum
           \o << Tok("</archived-checksum>"), Tok("<extracted-checksum style=sha1>") >>
           \o e.data.extractedChecksum
           \o << Tok("</extracted-checksum>"),
                 Tok("<encoding style=application/x-gzip/>"), Tok("</data>") >>)
  \o << Tok("</file>") >>
EntriesXML(es) ==
  IF es = <<>> THEN <<>> ELSE EntryXML(Head(es)) \o EntriesXML(Tail(es))

RECURSIVE CertsXML(_)
CertsXML(certs) ==
  IF certs = <<>> THEN <<>>
  ELSE << Tok("<X509Certificate>") >> \o Head(certs)
       \o << Tok("</X509Certificate>") >> \o CertsXML(Tail(certs))

\* The instant new Date() returns in generateTOC(), as an index into the
\* texts below.
Clock == 1

\* creationTime.toISOString() and the seconds since 2001-01-01 of the
\* instants new Date() returns.
TimeText == << "2026-01-01T00:00:00.000Z", "2026-01-01T00:00:01.500Z",
               "2026-01-01T00:00:03.000Z" >>
SecondsText == << "788918400", "788918401.5", "788918403" >>

\* buildXML(tocStruct)
buildXML(toc) ==
  << Tok("<?xml version=1.0 encoding=UTF-8?>"), Tok("<xar>"), Tok("<toc>"),
     Tok("<creation-time>"), Tok(TimeText[toc.creationTime]),
     Tok("</creation-time>"),
     Tok("<checksum style=sha1>"), Tok("<size>") >> \o NumText(toc.checksum.size)
  \o << Tok("</size>"), Tok("<offset>") >> \o NumText(toc.checksum.offset)
  \o << Tok("</offset>"), Tok("</checksum>") >>
  \o (IF toc.signed
      THEN << Tok("<signature-creation-time>"),
              Tok(SecondsText[toc.creationTime]),
              Tok("</signature-creation-time>"),
              Tok("<signature style=RSA>"), Tok("<offset>") >>
           \o NumText(toc.signature.offset)
           \o << Tok("</offset>"), Tok("<size>") >> \o NumText(toc.signature.size)
           \o << Tok("</size>"), Tok("<KeyInfo>"), Tok("<X509Data>") >>
           \o CertsXML(toc.signature.certs)
           \o << Tok("</X509Data>"), Tok("</KeyInfo>"), Tok("</signature>") >>
      ELSE <<>>)
  \o EntriesXML(toc.file)
  \o << Tok("</toc>"), Tok("</xar>") >>

\* The size generateTOC declares in <signature><size>.
DeclaredSignatureSize == RSA_SIGNATURE_SIZE

NoToc == [ creationTime |-> 0, checksum |-> [size |-> 0, offset |-> 0],
           signed |-> FALSE,
           signature |-> [offset |-> 0, size |-> 0, certs |-> <<>>],
           file |-> <<>> ]

\* The error generateTOC() raises, "" when it returns.
generateTOCError(ns, roots, signing, sig) ==
  IF signing /\ ( \/ CertSectionMissing(sig.cert)
                  \/ \E i \in 1..Len(sig.additionalCerts) :
                        CertSectionMissing(sig.additionalCerts[i]) )
  THEN "Missing expected BEGIN CERTIFICATE ... END CERTIFICATE section"
  ELSE TocEntriesError(ns, roots)

\* A certificate list with the leaf at the end.
certEntriesLeafLast(sig) ==
  [i \in 1..Len(sig.additionalCerts) |->
     extractPEMSection(sig.additionalCerts[i])]
  \o << extractPEMSection(sig.cert) >>

\* let certEntries = [extractCertSection(cert),
\*                    ...additionalCerts.map(extractCertSection)]
certEntries(sig) ==
  << extractPEMSection(sig.cert) >>
  \o [i \in 1..Len(sig.additionalCerts) |->
        extractPEMSection(sig.additionalCerts[i])]

\* tocStruct.xar.toc as generateTOC() fills it.
generateTOC(ns, roots, signing, sig, now) ==
  [ creationTime |-> now,
    checksum |-> [size |-> digestSize, offset |-> 0],
    signed |-> signing,
    signature |->
      IF signing
      THEN [ offset |-> digestSize, size |-> DeclaredSignatureSize,
             certs |-> certEntries(sig) ]
      ELSE NoToc.signature,
    file |-> TocEntries(ns, roots) ]

\* ------------------------------------------------ generate(): emission
\* An uncompressed length counted in characters of the XML string.
StringLength(tocXML) == Length(tocXML)

\* The value generate() gives the uncompressed-length field: the length
\* of the Buffer holding the UTF-8 encoded XML.
UncompressedTocLength(tocXML) == Length(Utf8Encode(tocXML))

\* The `header` array generate() hands to ctype.
HeaderValues(compressedTOC, tocXML) ==
  [ magic |-> XAR_MAGIC, size |-> XAR_HEADER_SIZE, version |-> 1,
    toc_length_compressed |-> << 0, Length(compressedTOC) >>,
    toc_length_uncompressed |-> << 0, UncompressedTocLength(tocXML) >>,
    cksum_alg |-> XAR_CHECKSUM_SHA1 ]

\* A header with the two TOC length fields in each other's place.
WriteHeaderSwapped(v) ==
  U32BE(v.magic) \o U16BE(v.size) \o U16BE(v.version)
  \o U64BE(v.toc_length_uncompressed[1], v.toc_length_uncompressed[2])
  \o U64BE(v.toc_length_compressed[1], v.toc_length_compressed[2])
  \o U32BE(v.cksum_alg)

\* ctypeParser.writeData of a xar_header into a 28 byte Buffer.
WriteHeader(v) ==
  U32BE(v.magic) \o U16BE(v.size) \o U16BE(v.version)
  \o U64BE(v.toc_length_compressed[1], v.toc_length_compressed[2])
  \o U64BE(v.toc_length_uncompressed[1], v.toc_length_uncompressed[2])
  \o U32BE(v.cksum_alg)

\* A signer that is given the TOC checksum.
SignedTocHash(compressedTOC, tocHash) == tocHash

\* The bytes handed to signer.update().
SignedData(compressedTOC, tocHash) == compressedTOC

RECURSIVE EmitFiles(_, _, _, _)
\* for (let file of fileList): the heap writes, up to a failed assertion.
\* st.bytesWritten is heapWriter.bytesWritten.
EmitFiles(st, ns, fileList, i) ==
  IF i > Len(fileList) \/ st.err # "" THEN st
  ELSE LET d == ns[fileList[i]].data
       IN  IF st.bytesWritten # d.offset
           THEN [st EXCEPT !.err = "assert: heap offset"]
           ELSE IF Length(d.data) # d.length
           THEN [st EXCEPT !.err = "assert: data length"]
           ELSE EmitFiles([ writes |-> Append(st.writes, d.data),
                            bytesWritten |-> st.bytesWritten + Length(d.data),
                            err |-> "" ],
                          ns, fileList, i + 1)

\* The signature step: nothing when not signing, else the assertion on
\* the signature length and the write of the signature.
WriteSignature(st, signing, signature) ==
  IF ~signing THEN st
  ELSE IF Length(signature) # RSA_SIGNATURE_SIZE
  THEN [st EXCEPT !.err = "assert: signature length"]
  ELSE [ writes |-> Append(st.writes, signature),
         bytesWritten |-> st.bytesWritten + Length(signature),
         err |-> "" ]

\* The writes up to the TOC checksum: writer.write(headerBuffer),
\* writer.write(compressedTOC), heapWriter.write(tocHash).
WriteHead(headerBuffer, compressedTOC, tocHash) ==
  [ writes |-> << headerBuffer, compressedTOC, tocHash >>,
    bytesWritten |-> Length(tocHash), err |-> "" ]

EmitHashed(ns, fileList, signing, sig, tocXML, compressedTOC, tocHash) ==
  EmitFiles(WriteSignature(
              WriteHead(WriteHeader(HeaderValues(compressedTOC, tocXML)),
                        compressedTOC, tocHash),
              signing,
              RsaSign(sig.privateKey, SignedData(compressedTOC, tocHash))),
            ns, fileList, 1)

\* A TOC checksum taken over the XML bytes before compression.
EmitHashOfXml(ns, fileList, signing, sig, tocXML, compressedTOC) ==
  EmitHashed(ns, fileList, signing, sig, tocXML, compressedTOC,
             Sha1(Utf8Encode(tocXML)))

EmitCompressed(ns, fileList, signing, sig, tocXML, compressedTOC) ==
  EmitHashed(ns, fileList, signing, sig, tocXML, compressedTOC,
             Sha1(compressedTOC))

\* Everything after generateTOC(): header, TOC, checksum, signature and
\* file payloads, as the sequence of Writer.write() arguments.
Emit(ns, fileList, signing, sig, tocXML) ==
  EmitCompressed(ns, fileList, signing, sig, tocXML,
                 deflateSync(Utf8Encode(tocXML)))

NoGen == [ status |-> "none", err |-> "", roots |-> <<>>,
           preIds |-> [h \in Handles |-> 0], preOffsets |-> [h \in Handles |-> NoOffset],
           signing |-> FALSE, key |-> NoSignature.privateKey,
           fileList |-> <<>>, paths |-> <<>>, laidOut |-> FALSE, heapSize |-> 0,
           toc |-> NoToc, tocXML |-> <<>>, bytesWritten |-> 0 ]

WriteEvents(writes) == [i \in 1..Len(writes) |-> Event("write", i, "", <<>>)]

\* What the call leaves behind when it returns or throws after the layout
\* pass: `base` records the passes before.
Outcome(base, laid, toc, tocXML, emitted) ==
  [ nodes |-> laid.nodes, writes |-> emitted.writes,
    events |-> laid.events \o WriteEvents(emitted.writes),
    gen |-> [base EXCEPT !.status = IF emitted.err = "" THEN "ok" ELSE "error",
                         !.err = emitted.err, !.laidOut = TRUE,
                         !.toc = toc, !.tocXML = tocXML,
                         !.bytesWritten = emitted.bytesWritten] ]

Failed(base, laid, err, laidOut) ==
  [ nodes |-> laid.nodes, writes |-> <<>>, events |-> laid.events,
    gen |-> [base EXCEPT !.status = "error", !.err = err, !.laidOut = laidOut] ]

\* let tocXML = this.generateTOC() and what follows it in generate().
EmitToc(base, laid, fileList, roots, signing, sig, toc, tocXML) ==
  Outcome(base, laid, toc, tocXML,
          Emit(laid.nodes, fileList, signing, sig, tocXML))

BuildToc(base, laid, fileList, roots, signing, sig, toc) ==
  EmitToc(base, laid, fileList, roots, signing, sig, toc, buildXML(toc))

AfterLayout(base, laid, fileList, roots, signing, sig, now) ==
  IF laid.err # "" THEN Failed(base, laid, laid.err, FALSE)
  ELSE IF generateTOCError(laid.nodes, roots, signing, sig) # ""
  THEN Failed([base EXCEPT !.heapSize = laid.heapSize], laid,
              generateTOCError(laid.nodes, roots, signing, sig), TRUE)
  ELSE BuildToc([base EXCEPT !.heapSize = laid.heapSize], laid, fileList,
                roots, signing, sig,
                generateTOC(laid.nodes, roots, signing, sig, now))

\* The layout pass over the sorted fileList.
LayoutPass(base, ns, fileList, paths, roots, signing, sig, now, kind, fill) ==
  AfterLayout([base EXCEPT !.fileList = fileList, !.paths = paths],
              LayoutLoop([ nodes |-> ns, heapSize |-> InitialHeapSize(signing),
                           events |-> <<>>, err |-> "" ],
                         fileList, paths, 1, kind, fill),
              fileList, roots, signing, sig, now)

SortPass(base, assigned, roots, signing, sig, now, kind, fill) ==
  LayoutPass(base, assigned.nodes,
             SortFileList(assigned.nodes, assigned.fileList), assigned.paths,
             roots, signing, sig, now, kind, fill)

\* The pass that gives the ids, from the maxID of the first walk.
AssignPass(ns, roots, maxID) ==
  AssignLoop([ nodes |-> ns, maxID |-> maxID, fileList |-> <<>>, paths |-> <<>> ],
             WalkForest(ns, roots))

\* generate(writer, fileDataProvider) on an archive in state (ns, roots,
\* sig): the nodes afterwards, the writes made, the calls made and a
\* record of the intermediate values.
GenerateRun(ns, roots, sig, now, kind, fill) ==
  SortPass([ NoGen EXCEPT !.roots = roots,
               !.preIds = [h \in Handles |-> ns[h].id],
               !.preOffsets = [h \in Handles |-> ns[h].data.offset],
               !.signing = (sig # NoSignature), !.key = sig.privateKey ],
           AssignPass(ns, roots, InitialMaxID(ns, roots)),
           roots, sig # NoSignature, sig, now, kind, fill)

\* ------------------------------------------------------------ reader path
NoHeader == [ size |-> 0, version |-> 0, tocLengthCompressed |-> 0,
              tocLengthUncompressed |-> 0, checksumAlgorithm |-> 0 ]

\* ctypeParser.readData of a xar_header from 28 bytes. Bytes that are
\* not numeric bytes of the model have no defined value: the field reads
\* as -1.
FieldValue(buf, from, to) ==
  IF Len(buf) = XAR_HEADER_SIZE /\ IsNumBytes(SubSeq(buf, from, to))
  THEN BEValue(SubSeq(buf, from, to)) ELSE -1
Field64Value(buf, from) ==
  Abs64OrLess(FieldValue(buf, from, from + 3), FieldValue(buf, from + 4, from + 7))
\* The XarHeader readHeader() returns.
ParseHeader(buf) ==
  [ size |-> FieldValue(buf, 5, 6),
    version |-> FieldValue(buf, 7, 8),
    tocLengthCompressed |-> Field64Value(buf, 9),
    tocLengthUncompressed |-> Field64Value(buf, 17),
    checksumAlgorithm |-> FieldValue(buf, 25, 28) ]

\* The checks of readHeader() on the 28 bytes read.
CheckHeader(rd, buf) ==
  IF ~rd.open THEN [err |-> "TypeError: reader is undefined", header |-> NoHeader]
  ELSE IF Length(buf) < XAR_HEADER_SIZE
  THEN [err |-> "Input length is less than xar archive header size",
        header |-> NoHeader]
  ELSE IF FieldValue(buf, 1, 4) # XAR_MAGIC
  THEN [err |-> "Mime magic does not match", header |-> NoHeader]
  ELSE IF FieldValue(buf, 5, 6) < XAR_HEADER_SIZE
  THEN [err |-> "Header size is smaller than 28 bytes", header |-> NoHeader]
  ELSE IF LosesPrecision \in { Field64Value(buf, 9), Field64Value(buf, 17) }
  THEN [err |-> "value would lose precision due to rounding",
        header |-> NoHeader]
  ELSE [err |-> "", header |-> ParseHeader(buf)]

\* readHeader() on a reader whose data source holds `content`:
\* [err, header].
readHeader(rd, content, fill) ==
  CheckHeader(rd, ReaderRead(rd.kind, content, 0, XAR_HEADER_SIZE, fill))

\* A call of reader.read, as the log of a tableOfContentsXML() call has it.
ReadCall(offset, length) == [offset |-> offset, length |-> length]
HeaderRead == ReadCall(0, XAR_HEADER_SIZE)

TocFailure(e) == [status |-> "error", err |-> e, text |-> <<>>]
\* The outcome of a tableOfContentsXML() call with the reads it made.
Logged(result, reads) ==
  [ status |-> result.status, err |-> result.err, text |-> result.text,
    reads |-> reads ]

\* The end of tableOfContentsXML(): the length check on the inflated TOC.
CheckLength(header, tocData) ==
  IF Length(tocData) # header.tocLengthUncompressed
  THEN TocFailure("Table of contents length does not match size specified in header")
  ELSE [status |-> "ok", err |-> "", text |-> Utf8Decode(tocData)]

\* The checksum comparison and the inflate of tableOfContentsXML().
CheckChecksum(header, compressedTOC, expectedChecksum) ==
  IF ~bufferEquals(Sha1(compressedTOC), expectedChecksum)
  THEN TocFailure("Actual table of contents checksum does not match expected checksum")
  ELSE IF ~Inflatable(compressedTOC) THEN TocFailure("inflate error")
  ELSE CheckLength(header, inflateSync(compressedTOC))

\* A reader path that takes the TOC to start right after 28 bytes.
ReadCompressedAt28(rd, content, fill, header) ==
  IF ReadThrows(rd.kind, header.tocLengthCompressed)
  THEN Logged(TocFailure("RangeError: invalid Buffer length"),
              << HeaderRead, ReadCall(XAR_HEADER_SIZE, header.tocLengthCompressed) >>)
  ELSE IF header.checksumAlgorithm # XAR_CHECKSUM_SHA1
  THEN Logged(TocFailure("Unsupported table of contents checksum algorithm"),
              << HeaderRead, ReadCall(XAR_HEADER_SIZE, header.tocLengthCompressed) >>)
  ELSE Logged(CheckChecksum(header,
                            ReaderRead(rd.kind, content, XAR_HEADER_SIZE,
                                       header.tocLengthCompressed, fill),
                            ReaderRead(rd.kind, content,
                                       XAR_HEADER_SIZE + header.tocLengthCompressed,
                                       digestSize, fill)),
              << HeaderRead, ReadCall(XAR_HEADER_SIZE, header.tocLengthCompressed),
                 ReadCall(XAR_HEADER_SIZE + header.tocLengthCompressed, digestSize) >>)

\* tableOfContentsXML() from the read of the compressed TOC on: that read,
\* the check of the checksum algorithm, the read of the checksum.
ReadCompressed(rd, content, fill, header) ==
  IF ReadThrows(rd.kind, header.tocLengthCompressed)
  THEN Logged(TocFailure("RangeError: invalid Buffer length"),
              << HeaderRead, ReadCall(header.size, header.tocLengthCompressed) >>)
  ELSE IF header.checksumAlgorithm # XAR_CHECKSUM_SHA1
  THEN Logged(TocFailure("Unsupported table of contents checksum algorithm"),
              << HeaderRead, ReadCall(header.size, header.tocLengthCompressed) >>)
  ELSE Logged(CheckChecksum(header,
                            ReaderRead(rd.kind, content, header.size,
                                       header.tocLengthCompressed, fill),
                            ReaderRead(rd.kind, content,
                                       header.size + header.tocLengthCompressed,
                                       digestSize, fill)),
              << HeaderRead, ReadCall(header.size, header.tocLengthCompressed),
                 ReadCall(header.size + header.tocLengthCompressed, digestSize) >>)

\* tableOfContentsXML() after readHeader() returned or threw.
ReadToc(rd, content, fill, h) ==
  IF ~rd.open THEN Logged(TocFailure(h.err), <<>>)
  ELSE IF h.err # "" THEN Logged(TocFailure(h.err), << HeaderRead >>)
  ELSE ReadCompressed(rd, content, fill, h.header)

\* tableOfContentsXML(): [status, err, text, reads].
tableOfContentsXML(rd, content, fill) ==
  ReadToc(rd, content, fill, readHeader(rd, content, fill))

\* ------------------------------------------------------------------ state
VARIABLES
  nodes,               \* the XarFile objects, by handle
  files,               \* XarArchive.files: the roots added, in order
  signatureResources,  \* XarArchive.signatureResources (NoSignature: unset)
  reader,              \* XarArchive.reader
  written,             \* the archive file: the buffers the Writer received
  events,              \* provider calls, reads and writes of the generate()
                       \* call that has just returned
  gen,                 \* outcome and intermediate values of that call
  tocResult,           \* outcome of the tableOfContentsXML() call that has
                       \* just returned
  handed               \* the trees the caller has passed to addFile()

vars == << nodes, files, signatureResources, reader, written, events, gen,
           tocResult, handed >>

\* The nodes the caller may give an id before addFile(): the two files of
\* the directory.
PresetHandles == { 2, 3 }

\* Ids the caller pre-assigned: XarFile.id "must be unique within an
\* archive", 0 stands for an id that is not set.
PresetIds ==
  { p \in [Handles -> 0..MaxPresetId] :
      /\ \A h \in Handles \ PresetHandles : p[h] = 0
      /\ \A a, b \in Handles : (a # b /\ p[a] # 0) => p[a] # p[b] }

NoReader == [open |-> FALSE, kind |-> "file"]
NoTocResult == [status |-> "none", err |-> "", text |-> <<>>, reads |-> <<>>]

Init ==
  /\ \E p \in PresetIds :
       nodes = [h \in Handles |-> [WalkedNodes[h] EXCEPT !.id = p[h]]]
  /\ files = <<>>
  /\ signatureResources = NoSignature
  /\ reader = NoReader
  /\ written = <<>>
  /\ events = <<>>
  /\ gen = NoGen
  /\ tocResult = NoTocResult
  /\ handed = {}

IdsOf(ns, hs) == { ns[hs[i]].id : i \in 1..Len(hs) } \ {0}

\* The caller starts to reconfigure the archive object: the archive file
\* of the previous generate() is put away, and the record of that call
\* with it.
PutAway ==
  /\ written' = <<>>
  /\ events' = <<>>
  /\ gen' = NoGen
  /\ tocResult' = NoTocResult

\* addFile(file): the caller adds a tree once, and the ids it carries are
\* not in use in the archive.
AddFile(h) ==
  /\ h \notin handed
  /\ IdsOf(nodes, PreOrder(nodes, h)) \cap IdsOf(nodes, WalkForest(nodes, files)) = {}
  /\ files' = Append(files, h)
  /\ handed' = handed \cup {h}
  /\ PutAway
  /\ UNCHANGED << nodes, signatureResources, reader >>

\* setCertificates(opts): the signature resources are set once.
SetCertificates(opts) ==
  /\ signatureResources = NoSignature
  /\ signatureResources' = opts
  /\ PutAway
  /\ UNCHANGED << nodes, files, reader, handed >>

\* The state after a generate() call with the result r.
Generated(r) ==
  /\ nodes' = r.nodes
  /\ written' = r.writes
  /\ events' = r.events
  /\ gen' = r.gen

\* generate(writer, fileDataProvider) with a Writer that replaces the
\* archive file. The fill of an unwritten Buffer matters to a FileReader
\* only.
Generate(now, kind, fill) ==
  /\ kind = "buffer" => fill = Num(0)
  /\ Generated(GenerateRun(nodes, files, signatureResources, now, kind, fill))
  /\ tocResult' = NoTocResult
  /\ UNCHANGED << files, signatureResources, reader, handed >>

\* open(reader) as it would be without `this.files = []`.
OpenKeepingFiles(kind) ==
  /\ reader # [open |-> TRUE, kind |-> kind]
  /\ reader' = [open |-> TRUE, kind |-> kind]
  /\ tocResult' = NoTocResult
  /\ UNCHANGED << nodes, files, signatureResources, written, events, gen,
                  handed >>

\* open(reader) with a Reader over the archive file, in place of the
\* reader the archive object had, if any.
Open(kind) ==
  /\ reader # [open |-> TRUE, kind |-> kind]
  /\ files' = <<>>
  /\ reader' = [open |-> TRUE, kind |-> kind]
  /\ tocResult' = NoTocResult
  /\ UNCHANGED << nodes, signatureResources, written, events, gen, handed >>

\* tableOfContentsXML()
TableOfContentsXML(fill) ==
  /\ reader.kind = "buffer" => fill = Num(0)
  /\ tocResult' = tableOfContentsXML(reader, Concat(written), fill)
  /\ UNCHANGED << nodes, files, signatureResources, reader, written, events,
                  gen, handed >>

Next ==
  \/ \E h \in RootHandles : AddFile(h)
  \/ \E opts \in SignatureResourcesSet : SetCertificates(opts)
  \/ \E kind \in ReaderKinds, fill \in FillBytes :
       Generate(Clock, kind, fill)
  \/ \E kind \in ReaderKinds : Open(kind)
  \/ \E fill \in FillBytes : TableOfContentsXML(fill)

Spec == Init /\ [][Next]_vars

\* ------------------------------------------------ archive files at large
\* The archive generate() writes for the single file "c", unsigned.
SampleRun == GenerateRun(WalkedNodes, << 4 >>, NoSignature, Clock, "file", Num(0))
SampleToc == SampleRun.writes[2]
SampleHeader == HeaderValues(SampleToc, SampleRun.gen.tocXML)
SampleFile == Concat(SampleRun.writes)

\* Headers a file handed to open() may start with: the one generate()
\* wrote and that header with one or two fields changed.
HeaderCases ==
  { SampleHeader,
    [SampleHeader EXCEPT !.magic = XAR_MAGIC + 1],
    [SampleHeader EXCEPT !.magic = XAR_MAGIC + 1, !.size = 20],
    [SampleHeader EXCEPT !.magic = 0, !.cksum_alg = 0],
    [SampleHeader EXCEPT !.size = 0],
    [SampleHeader EXCEPT !.size = 20],
    [SampleHeader EXCEPT !.size = 27],
    [SampleHeader EXCEPT !.size = 27, !.cksum_alg = 0],
    [SampleHeader EXCEPT !.size = 30],
    [SampleHeader EXCEPT !.size = 30, !.cksum_alg = 2],
    [SampleHeader EXCEPT !.version = 0],
    [SampleHeader EXCEPT !.cksum_alg = 0],
    [SampleHeader EXCEPT !.cksum_alg = 2],
    [SampleHeader EXCEPT !.toc_length_uncompressed[2] = @ + 1],
    [SampleHeader EXCEPT !.toc_length_uncompressed[2] = @ + 1, !.cksum_alg = 0],
    [SampleHeader EXCEPT !.toc_length_compressed[2] = @ - 1],
    [SampleHeader EXCEPT !.toc_length_compressed[2] = @ + 1],
    [SampleHeader EXCEPT !.toc_length_compressed[1] = 1],
    [SampleHeader EXCEPT !.toc_length_uncompressed[1] = ToAbs64Limit] }

\* What may stand between the 28 header bytes and the compressed TOC.
PaddingCases == { <<>>, << Num(0), Num(0) >> }

\* What may follow: the compressed TOC and its checksum as written, the
\* TOC with another checksum, and bytes that are no zlib stream with their
\* checksum.
NoStream == << Num(1), Num(2) >>
BodyCases ==
  { << SampleToc, Sha1(SampleToc) >>,
    << SampleToc, Sha1(<<>>) >>,
    << NoStream, Sha1(NoStream) >> }

\* Lengths at which the archive file may have been cut off.
TruncationPoints == { 0, 3, 10, 27, 40, XAR_HEADER_SIZE + Length(SampleToc) + 10 }

CraftedArchives ==
  { << WriteHeader(v), pad, body[1], body[2] >> :
      v \in HeaderCases, pad \in PaddingCases, body \in BodyCases }
  \cup { << Slice(SampleFile, 0, n) >> : n \in TruncationPoints }

\* An archive object and a file of unknown origin to open.
ReadInit ==
  /\ nodes = WalkedNodes
  /\ files = <<>>
  /\ signatureResources = NoSignature
  /\ reader = NoReader
  /\ written \in CraftedArchives
  /\ events = <<>>
  /\ gen = NoGen
  /\ tocResult = NoTocResult
  /\ handed = {}

ReadNext ==
  \/ \E kind \in ReaderKinds : Open(kind)
  \/ \E fill \in FillBytes : TableOfContentsXML(fill)

ReadSpec == ReadInit /\ [][ReadNext]_vars

\* ------------------------------------------------------ forests at large
\* Nodes a caller may hand over besides those walk() returns: without
\* srcPath, without name, the empty file, and a file whose size on disk is
\* no longer the size recorded.
EmptyFile == NewNode(<< Tok("empty") >>, File, "/empty", <<>>, 0)
DirectoryCases ==
  { WalkedNodes[1], [WalkedNodes[1] EXCEPT !.srcPath = ""],
    [WalkedNodes[1] EXCEPT !.name = <<>>] }
ChildCases ==
  { WalkedNodes[2], [WalkedNodes[2] EXCEPT !.name = <<>>], EmptyFile }
FileCases ==
  { WalkedNodes[4], [WalkedNodes[4] EXCEPT !.data.size = 3],
    [EmptyFile EXCEPT !.srcPath = ""] }
EdgeForests ==
  { << d, a, WalkedNodes[3], c >> :
      d \in DirectoryCases, a \in ChildCases, c \in FileCases }

EdgeInit ==
  /\ nodes \in EdgeForests
  /\ files = <<>>
  /\ signatureResources = NoSignature
  /\ reader = NoReader
  /\ written = <<>>
  /\ events = <<>>
  /\ gen = NoGen
  /\ tocResult = NoTocResult
  /\ handed = {}

EdgeNext ==
  \/ \E h \in RootHandles : AddFile(h)
  \/ \E kind \in ReaderKinds, fill \in FillBytes :
       Generate(Clock, kind, fill)
  \/ \E kind \in ReaderKinds : Open(kind)
  \/ \E fill \in FillBytes : TableOfContentsXML(fill)

EdgeSpec == EdgeInit /\ [][EdgeNext]_vars

\* ------------------------------------------- certificate texts at large
\* The lines a certificate file is made of here: the two markers, a line
\* of base64 text and the empty line.
PemLines == { "-----BEGIN CERTIFICATE-----", "-----END CERTIFICATE-----",
              "QUJD", "" }
PemTexts == UNION { [1..n -> PemLines] : n \in 0..MaxPemLines }

\* Signature resources with the text as the leaf certificate, or as the
\* last of the additional certificates.
PemResourcesSet ==
  { [cert |-> t, privateKey |-> Key2048, additionalCerts |-> <<>>] :
      t \in PemTexts }
  \cup
  { [cert |-> LeafPem, privateKey |-> Key2048,
     additionalCerts |-> << IntermediatePem, t >>] :
      t \in { x \in PemTexts : Len(x) <= MaxExtraPemLines } }

\* An archive object without files.
PemInit ==
  /\ nodes = WalkedNodes
  /\ files = <<>>
  /\ signatureResources = NoSignature
  /\ reader = NoReader
  /\ written = <<>>
  /\ events = <<>>
  /\ gen = NoGen
  /\ tocResult = NoTocResult
  /\ handed = {}

PemNext ==
  \/ \E opts \in PemResourcesSet : SetCertificates(opts)
  \/ Generate(Clock, "file", Num(0))

PemSpec == PemInit /\ [][PemNext]_vars

\* ------------------------------------------------------------- properties
\* The nodes reachable from the roots of the generate() call on record, in
\* the order of the walk, and the files among them.
Reachable == WalkForest(nodes, gen.roots)
IsFile(h) == nodes[h].type = File
FileEntries == { h \in Range(Reachable) : IsFile(h) }
\* Number of file entries with a smaller id.
IdRank(h) == Cardinality({ g \in FileEntries : nodes[g].id < nodes[h].id })
\* The file entry at position i of the ascending id order.
EntryAt(i) == CHOOSE h \in FileEntries : IdRank(h) = i - 1
Signing == signatureResources # NoSignature
\* Number of writes before the first file payload.
HeadWrites == IF Signing THEN 4 ELSE 3
Emitted == gen.status = "ok"
\* The archive file as one byte string.
Output == Concat(written)
\* Position of the heap in the output.
HeapStart == XAR_HEADER_SIZE + Length(written[2])

\* C1: after a successful generate(), tableOfContentsXML() on a reader
\* opened over the emitted bytes raises no error and returns the XML text
\* generate() built; the UTF-8 length of that text is the header's
\* uncompressed TOC length, and the SHA-1 of its compressed form is the 20
\* bytes stored after the compressed TOC.
C1_RoundTrip ==
  (Emitted /\ reader.open /\ tocResult.status # "none") =>
    /\ tocResult.status = "ok"
    /\ tocResult.text = gen.tocXML
    /\ Utf8Length(tocResult.text) = Field64Value(Slice(Output, 0, XAR_HEADER_SIZE), 17)
    /\ Sha1(deflateSync(Utf8Encode(tocResult.text)))
         = Slice(Output, HeapStart, digestSize)

\* A signed archive of both trees was generated, opened and read back.
C1_Witness ==
  /\ Emitted /\ gen.signing /\ Len(gen.roots) = 2
  /\ reader.open /\ tocResult.status = "ok"

\* C2: the writes of a successful generate() are the 28-byte header, the
\* compressed TOC, the 20-byte SHA-1 of the compressed TOC, the signature
\* exactly when signature resources are set, then the payload of each file
\* entry once, in strictly ascending id order, and nothing else.
C2_WriteOrder ==
  Emitted =>
    /\ Len(written) = HeadWrites + Cardinality(FileEntries)
    /\ Length(written[1]) = XAR_HEADER_SIZE
    /\ FieldValue(written[1], 1, 4) = XAR_MAGIC
    /\ written[2] = deflateSync(Utf8Encode(gen.tocXML))
    /\ written[3] = Sha1(written[2])
    /\ Length(written[3]) = 20
    /\ Signing => /\ Len(written[4]) = 1
                  /\ written[4][1].k = "sig"
                  /\ written[4][1].s = signatureResources.privateKey.name
    /\ \A i \in 1..Cardinality(FileEntries) :
         /\ \E h \in FileEntries : IdRank(h) = i - 1
         /\ written[HeadWrites + i] = nodes[EntryAt(i)].data.data
         /\ written[HeadWrites + i][1].k # "sig"

\* A signed archive was emitted whose three files are not in id order in
\* the walk.
C2_Witness ==
  /\ Emitted /\ Signing /\ Cardinality(FileEntries) = 3
  /\ \E i, j \in 1..Len(Reachable) :
       i < j /\ nodes[Reachable[i]].id > nodes[Reachable[j]].id

\* C3: every file the layout pass reads is read through the Reader that
\* fileDataProvider returns for that entry's own srcPath, at offset 0 for
\* the entry's size, and these are the bytes compressed and checksummed
\* for the entry.
C3_OwnSource ==
  \A i \in 1..Len(events) :
    events[i].op \in { "provide", "read" } =>
      /\ events[i].path = nodes[events[i].h].srcPath
      /\ events[i].op = "read" =>
           /\ events[i].data = Slice(Disk(nodes[events[i].h].srcPath), 0,
                                     nodes[events[i].h].data.size)
           /\ nodes[events[i].h].data.data = deflateSync(events[i].data)

\* C4: after the id assignment of generate(), every node reachable from
\* the roots has a positive id and no two reachable nodes share an id.
C4_UniqueIds ==
  gen.status # "none" =>
    \A a, b \in Range(Reachable) :
      /\ nodes[a].id > 0
      /\ a # b => nodes[a].id # nodes[b].id

\* Ids were assigned in a forest of two trees where one node came with an
\* id and others without.
C4_Witness ==
  /\ gen.status # "none" /\ Len(gen.roots) = 2
  /\ \E a, b \in Range(Reachable) : gen.preIds[a] # 0 /\ gen.preIds[b] = 0

\* The nodes that came to generate() without an id, in walk order, and the
\* largest id that came with a node (0 if none).
FreshNodes == SelectSeq(Reachable, LAMBDA h : gen.preIds[h] = 0)
PresentIds == { gen.preIds[h] : h \in Range(Reachable) } \cup { 0 }
MaxPresentId == CHOOSE m \in PresentIds : \A x \in PresentIds : x <= m

\* C5: id assignment keeps every id that was already set and gives the
\* nodes without one the values M+1, M+2, ... in depth-first pre-order
\* (roots in the order added, children in their order, directories
\* counted), M being the largest id already set in the forest.
C5_IdOrder ==
  gen.status # "none" =>
    /\ \A h \in Range(Reachable) :
         gen.preIds[h] # 0 => nodes[h].id = gen.preIds[h]
    /\ \A i \in 1..Len(FreshNodes) : nodes[FreshNodes[i]].id = MaxPresentId + i

\* Ids were assigned after a node with an id, to nodes of a directory and
\* of a second root.
C5_Witness ==
  /\ gen.status # "none" /\ Len(gen.roots) = 2 /\ MaxPresentId > 0
  /\ Len(FreshNodes) >= 3

\* C6: after the layout pass every file entry lies within the heap, the
\* intervals [offset, offset + length) of distinct entries are disjoint,
\* and in ascending id order they are contiguous, the first one starting
\* after the checksum and the signature slot.
C6_Layout ==
  gen.laidOut =>
    /\ \A h \in FileEntries :
         nodes[h].data.offset + nodes[h].data.length <= gen.heapSize
    /\ \A a, b \in FileEntries :
         a # b => \/ nodes[a].data.offset + nodes[a].data.length
                       <= nodes[b].data.offset
                  \/ nodes[b].data.offset + nodes[b].data.length
                       <= nodes[a].data.offset
    /\ \A h \in FileEntries :
         nodes[h].data.offset =
           IF IdRank(h) = 0 THEN digestSize + ReservedSignatureSize(gen.signing)
           ELSE nodes[EntryAt(IdRank(h))].data.offset
                  + nodes[EntryAt(IdRank(h))].data.length

RECURSIVE FlatEntries(_)
\* The <file> entries of a TOC forest, nested ones included.
FlatEntries(es) ==
  IF es = <<>> THEN <<>>
  ELSE << Head(es) >> \o FlatEntries(Head(es).file) \o FlatEntries(Tail(es))
DeclaredFiles == SelectSeq(FlatEntries(gen.toc.file), LAMBDA e : e.type = File)
\* The bytes of the output at the place a TOC entry declares.
DeclaredBytes(e) == Slice(Output, HeapStart + e.data.offset, e.data.length)
NodeWithId(id) == CHOOSE h \in FileEntries : nodes[h].id = id
\* The bytes found at the declared place are the payload of the entry e,
\* with the checksums and the size e declares.
PayloadAsDeclared(e, bytes) ==
  /\ bytes = nodes[NodeWithId(e.id)].data.data
  /\ shasum(bytes) = e.data.archivedChecksum
  /\ Inflatable(bytes)
  /\ Length(inflateSync(bytes)) = e.data.size
  /\ shasum(inflateSync(bytes)) = e.data.extractedChecksum

\* C7: for every file entry declared in the TOC of an emitted archive, the
\* output bytes at 28 + compressed TOC length + declared offset, for the
\* declared length, are that entry's compressed payload; their SHA-1 hex
\* is the declared archived-checksum and they decompress to `size` bytes
\* whose SHA-1 hex is the declared extracted-checksum.
C7_DeclaredPayload ==
  Emitted =>
    \A i \in 1..Len(DeclaredFiles) :
      PayloadAsDeclared(DeclaredFiles[i], DeclaredBytes(DeclaredFiles[i]))

\* A signed archive with three declared files was emitted.
C7_Witness ==
  Emitted /\ gen.signing /\ Len(DeclaredFiles) = 3

\* C8: when signing, the signature size the TOC declares and the bytes
\* the layout reserves for the signature both equal the length of a
\* signature made with the supplied key, generate() succeeds, and the
\* first file payload starts at heap offset 20 + that length.
C8_SignatureSlot ==
  (gen.signing /\ gen.toc # NoToc) =>
    /\ gen.toc.signature.size = SignatureLength(gen.key)
    /\ ReservedSignatureSize(gen.signing) = SignatureLength(gen.key)
    /\ Emitted
    /\ \A h \in FileEntries :
         IdRank(h) = 0 =>
           nodes[h].data.offset = digestSize + SignatureLength(gen.key)

\* C9: when signing, the signature written into the heap is the
\* signature, by the supplied key, of the compressed TOC bytes that were
\* written after the header.
C9_SignedBytes ==
  (Emitted /\ Signing) =>
    /\ written[4] = RsaSign(signatureResources.privateKey, written[2])
    /\ written[4] # RsaSign(signatureResources.privateKey, written[3])
    /\ written[4] # RsaSign(signatureResources.privateKey, Utf8Encode(gen.tocXML))

\* A signed archive with a file in it was emitted.
C9_Witness ==
  Emitted /\ Signing /\ Len(written) > 4 /\ Len(gen.roots) = 1

\* The header fields a reader of the emitted header must find.
ExpectedHeader ==
  [ size |-> 28, version |-> 1,
    tocLengthCompressed |-> Length(written[2]),
    tocLengthUncompressed |-> Utf8Length(gen.tocXML),
    checksumAlgorithm |-> 1 ]

\* C10: the emitted header is 'xar!', size 28, version 1, the two TOC
\* lengths as big-endian 64-bit fields with a zero high half (the number
\* of compressed TOC bytes written, the UTF-8 byte length of the XML) and
\* checksum algorithm 1; readHeader decodes it to the same values.
C10_Header ==
  Emitted =>
    /\ Len(written[1]) = 28
    /\ SubSeq(written[1], 1, 8)
         = << Num(120), Num(97), Num(114), Num(33), Num(0), Num(28), Num(0), Num(1) >>
    /\ SubSeq(written[1], 9, 12) = << Num(0), Num(0), Num(0), Num(0) >>
    /\ BEValue(SubSeq(written[1], 13, 16)) = Length(written[2])
    /\ SubSeq(written[1], 17, 20) = << Num(0), Num(0), Num(0), Num(0) >>
    /\ BEValue(SubSeq(written[1], 21, 24)) = Utf8Length(gen.tocXML)
    /\ SubSeq(written[1], 25, 28) = << Num(0), Num(0), Num(0), Num(1) >>
    /\ \A kind \in ReaderKinds, fill \in FillBytes :
         readHeader([open |-> TRUE, kind |-> kind], Output, fill)
           = [err |-> "", header |-> ExpectedHeader]

\* An unsigned archive holding the file with the two-byte name was
\* emitted and its header read back.
C10_Witness ==
  /\ Emitted /\ ~Signing /\ 1 \in Range(gen.roots)
  /\ Utf8Length(gen.tocXML) # Length(gen.tocXML)
  /\ reader.open /\ tocResult.status = "ok"

\* The compressed TOC length the header of the output declares.
DeclaredC == Field64Value(Slice(Output, 0, XAR_HEADER_SIZE), 9)

\* C11: in every emitted archive, with C the compressed TOC length of the
\* header, the 20 output bytes at [28 + C, 28 + C + 20) are the raw SHA-1
\* digest of the output bytes at [28, 28 + C).
C11_ChecksumLocality ==
  Emitted =>
    /\ DeclaredC > 0
    /\ Length(Slice(Output, XAR_HEADER_SIZE + DeclaredC, 20)) = 20
    /\ Slice(Output, XAR_HEADER_SIZE + DeclaredC, 20)
         = Sha1(Slice(Output, XAR_HEADER_SIZE, DeclaredC))

\* An unsigned archive of the single file was emitted.
C11_Witness ==
  Emitted /\ ~Signing /\ gen.roots = << 4 >>

\* The X509Certificate elements of the TOC text generate() built, in
\* document order, each as the text between its tags.
XmlHas(tag) == \E i \in 1..Len(gen.tocXML) : gen.tocXML[i] = Tok(tag)
CertOpenTags ==
  { i \in 1..Len(gen.tocXML) : gen.tocXML[i] = Tok("<X509Certificate>") }
CertCloseTags ==
  { i \in 1..Len(gen.tocXML) : gen.tocXML[i] = Tok("</X509Certificate>") }
NthCertOpen(k) ==
  CHOOSE i \in CertOpenTags :
    Cardinality({ j \in CertOpenTags : j < i }) = k - 1
CertCloseAfter(i) ==
  CHOOSE j \in CertCloseTags :
    j > i /\ \A m \in CertCloseTags : m > i => j <= m
XmlCerts ==
  [ k \in 1..Cardinality(CertOpenTags) |->
      SubSeq(gen.tocXML, NthCertOpen(k) + 1, CertCloseAfter(NthCertOpen(k)) - 1) ]

\* The base64 body of each certificate file, read off the file.
PemBody(pem) ==
  CASE pem = LeafPem -> << Tok("bGVhZg==") >>
    [] pem = IntermediatePem -> << Tok("aW50") >>
    [] OTHER -> <<>>
ExpectedCerts ==
  << PemBody(signatureResources.cert) >>
  \o [ i \in 1..Len(signatureResources.additionalCerts) |->
         PemBody(signatureResources.additionalCerts[i]) ]

\* C12: the TOC generate() builds holds a signature element and a
\* signature-creation-time element exactly when signature resources are
\* set; the X509Certificate list then has 1 + |additionalCerts| entries, the
\* body of the leaf certificate first and the bodies of additionalCerts after
\* it in the order given.
C12_SignatureElement ==
  gen.tocXML # <<>> =>
    /\ XmlHas("<signature style=RSA>") <=> Signing
    /\ XmlHas("<signature-creation-time>") <=> Signing
    /\ gen.toc.signed <=> Signing
    /\ Signing =>
         /\ Len(XmlCerts) = 1 + Len(signatureResources.additionalCerts)
         /\ XmlCerts = ExpectedCerts
    /\ ~Signing => CertOpenTags = {}

\* A TOC was built while signing with a leaf and one additional certificate.
C12_Witness ==
  /\ gen.tocXML # <<>>
  /\ Signing
  /\ Len(signatureResources.additionalCerts) = 1
  /\ Len(XmlCerts) = 2

\* The certificate text under examination: the last one set, and the
\* X509Certificate element generate() made of it.
TestedPem ==
  IF signatureResources.additionalCerts = <<>> THEN signatureResources.cert
  ELSE signatureResources.additionalCerts[Len(signatureResources.additionalCerts)]
TestedCert == XmlCerts[Len(XmlCerts)]
BeginAt(t) == { i \in 1..Len(t) : t[i] = "-----BEGIN CERTIFICATE-----" }
EndAt(t) == { i \in 1..Len(t) : t[i] = "-----END CERTIFICATE-----" }
FirstOf(S) == CHOOSE i \in S : \A j \in S : i <= j
\* The first section of the text: from its first BEGIN line to the first
\* END line after it.
FirstBegin(t) == FirstOf(BeginAt(t))
FirstEnd(t) == FirstOf({ j \in EndAt(t) : j > FirstBegin(t) })
HasSection(t) ==
  BeginAt(t) # {} /\ \E j \in EndAt(t) : j > FirstBegin(t)
OneSection(t) ==
  /\ Cardinality(BeginAt(t)) = 1
  /\ Cardinality(EndAt(t)) = 1
  /\ HasSection(t)
FirstBody(t) == SubSeq(t, FirstBegin(t) + 1, FirstEnd(t) - 1)
\* The lines of the body joined by newlines, written out.
JoinedText(lines) ==
  [ i \in { j \in 1..(2 * Len(lines) - 1) :
              j % 2 = 0 \/ lines[(j + 1) \div 2] # "" } |->
      IF i % 2 = 0 THEN "\\n" ELSE lines[(i + 1) \div 2] ]
Packed(f) ==
  [ k \in 1..Cardinality(DOMAIN f) |->
      Tok(f[CHOOSE i \in DOMAIN f :
              Cardinality({ j \in DOMAIN f : j < i }) = k - 1]) ]
BodyText(lines) == IF lines = <<>> THEN <<>> ELSE Packed(JoinedText(lines))

\* C13: for a certificate text made of lines without a marker, then one
\* well-formed CERTIFICATE section, then lines without a marker, the
\* certificate body generate() extracts is the body of the section alone:
\* the lines between the markers, and no surrounding line or marker line.
C13_PemTolerance ==
  ( /\ gen.status # "none"
    /\ Signing
    /\ OneSection(TestedPem)
    /\ BodyText(FirstBody(TestedPem)) # <<>> ) =>
      /\ gen.tocXML # <<>>
      /\ TestedCert = BodyText(FirstBody(TestedPem))
      /\ TestedCert
           = extractPEMSection(SubSeq(TestedPem, FirstBegin(TestedPem),
                                      FirstEnd(TestedPem)))

\* A section with text before and after it was extracted.
C13_Witness ==
  /\ gen.status = "ok"
  /\ Signing
  /\ OneSection(TestedPem)
  /\ FirstBegin(TestedPem) > 1
  /\ TestedPem[1] = "QUJD"
  /\ FirstEnd(TestedPem) < Len(TestedPem)
  /\ TestedPem[Len(TestedPem)] = "QUJD"
  /\ TestedCert = << Tok("QUJD") >>

\* C14: when the certificate text holds two or more CERTIFICATE sections,
\* the body extracted is that of the first section only.
C14_FirstSectionOnly ==
  ( /\ gen.status # "none"
    /\ Signing
    /\ HasSection(TestedPem)
    /\ Cardinality(BeginAt(TestedPem)) >= 2
    /\ Cardinality(EndAt(TestedPem)) >= 2
    /\ \E b \in BeginAt(TestedPem) :
         b > FirstEnd(TestedPem) /\ \E e \in EndAt(TestedPem) : e > b
    /\ BodyText(FirstBody(TestedPem)) # <<>> ) =>
      /\ gen.tocXML # <<>>
      /\ TestedCert = BodyText(FirstBody(TestedPem))

\* The text has no BEGIN CERTIFICATE line, or nothing between the markers
\* of its one section.
NoPemBody(t) ==
  \/ BeginAt(t) = {}
  \/ OneSection(t) /\ FirstBody(t) \in { <<>>, << "" >> }

\* C15: when signing, a leaf certificate text or an additional certificate
\* text with no BEGIN CERTIFICATE line, or with nothing between the
\* markers, makes generate() fail with the missing-PEM-section error.
C15_MissingPem ==
  ( /\ gen.status # "none"
    /\ Signing
    /\ NoPemBody(TestedPem) ) =>
      /\ gen.status = "error"
      /\ gen.err = "Missing expected BEGIN CERTIFICATE ... END CERTIFICATE section"
      /\ written = <<>>

\* generate() failed on an additional certificate whose section is empty.
C15_Witness ==
  /\ gen.status = "error"
  /\ Signing
  /\ signatureResources.additionalCerts # <<>>
  /\ BeginAt(TestedPem) # {}
  /\ NoPemBody(TestedPem)

\* The errors readHeader() raises.
HeaderErrors ==
  { "Input length is less than xar archive header size",
    "Mime magic does not match",
    "Header size is smaller than 28 bytes",
    "value would lose precision due to rounding" }
TocRead == reader.open /\ tocResult.status # "none"
\* The header fields as the bytes of the archive file give them.
FileMagicOk == Slice(Output, 0, 4) = U32BE(XAR_MAGIC)
FileHeaderSize == BEValue(Slice(Output, 4, 2))
FileC == BEValue(Slice(Output, 12, 4))
FileCHigh == BEValue(Slice(Output, 8, 4))
FileU == BEValue(Slice(Output, 20, 4))
FileUHigh == BEValue(Slice(Output, 16, 4))
FileAlg == BEValue(Slice(Output, 24, 4))

\* C17: reading the header fails when the file has fewer than 28 bytes,
\* fails with the invalid-magic error when the first four bytes are not
\* 'xar!', with the header-too-small error when the declared size is below
\* 28, the magic check first; and when the header fails no TOC bytes are
\* read.
C17_HeaderErrors ==
  TocRead =>
    /\ Length(Output) < XAR_HEADER_SIZE => tocResult.err \in HeaderErrors
    /\ (Length(Output) >= XAR_HEADER_SIZE /\ ~FileMagicOk) =>
         tocResult.err = "Mime magic does not match"
    /\ (Length(Output) >= XAR_HEADER_SIZE /\ FileMagicOk
        /\ FileHeaderSize < XAR_HEADER_SIZE) =>
         tocResult.err = "Header size is smaller than 28 bytes"
    /\ tocResult.err \in HeaderErrors => tocResult.reads = << HeaderRead >>

\* C17 for a Reader that returns the bytes the file has, and no more.
C17_WithExactReader == reader.kind = "buffer" => C17_HeaderErrors

\* The header of the file is whole and readHeader() accepts it, with TOC
\* lengths a Buffer can have.
HeaderAccepted ==
  /\ TocRead
  /\ Length(Output) >= XAR_HEADER_SIZE
  /\ tocResult.err \notin HeaderErrors
  /\ FileCHigh = 0
  /\ FileUHigh = 0
FileToc == Slice(Output, FileHeaderSize, FileC)
FileChecksum == Slice(Output, FileHeaderSize + FileC, digestSize)

\* C18: tableOfContentsXML() reads the compressed TOC at
\* [header_size, header_size + C) and the checksum in the 20 bytes after
\* it, with the size the header declares; it returns the TOC text only if
\* the checksum algorithm is SHA-1, the SHA-1 of the compressed TOC is the
\* stored checksum and the inflated length is the header's uncompressed
\* length, and raises the unsupported-algorithm, checksum-mismatch or
\* length-mismatch error otherwise.
C18_TocChecks ==
  HeaderAccepted =>
    /\ Len(tocResult.reads) >= 2
    /\ tocResult.reads[2] = ReadCall(FileHeaderSize, FileC)
    /\ FileAlg = XAR_CHECKSUM_SHA1 =>
         /\ Len(tocResult.reads) = 3
         /\ tocResult.reads[3] = ReadCall(FileHeaderSize + FileC, digestSize)
    /\ FileAlg # XAR_CHECKSUM_SHA1 =>
         tocResult.err = "Unsupported table of contents checksum algorithm"
    /\ (FileAlg = XAR_CHECKSUM_SHA1 /\ Sha1(FileToc) # FileChecksum) =>
         tocResult.err = "Actual table of contents checksum does not match expected checksum"
    /\ (FileAlg = XAR_CHECKSUM_SHA1 /\ Sha1(FileToc) = FileChecksum
        /\ Inflatable(FileToc) /\ Length(FileToc[3].d) # FileU) =>
         tocResult.err = "Table of contents length does not match size specified in header"
    /\ tocResult.status = "ok" <=>
         /\ FileAlg = XAR_CHECKSUM_SHA1
         /\ Sha1(FileToc) = FileChecksum
         /\ Inflatable(FileToc)
         /\ Length(FileToc[3].d) = FileU
    /\ tocResult.status = "ok" => tocResult.text = Utf8Decode(FileToc[3].d)

\* The TOC text was returned from a file whose header declares 30 bytes.
C18_Witness ==
  /\ HeaderAccepted
  /\ FileHeaderSize = 30
  /\ tocResult.status = "ok"
  /\ tocResult.text # <<>>

\* The nodes generate() walked, and what the caller left out of them.
Walked == Range(Reachable)
Unnamed(h) == nodes[h].name = <<>>
Unplaced(h) == nodes[h].srcPath = ""
ReadsOf == { i \in 1..Len(events) : events[i].op = "read" }

\* C16: generate() fails whenever a node reachable from the roots has no
\* srcPath or no name, and whenever the Reader returns a number of bytes
\* for a file that is not the size of its FileData.
C16_GenerateFails ==
  gen.status # "none" =>
    /\ (\E h \in Walked : Unnamed(h) \/ Unplaced(h)) =>
         gen.status = "error" /\ written = <<>>
    /\ (\E i \in ReadsOf :
          Length(events[i].data) # nodes[events[i].h].data.size) =>
         gen.status = "error" /\ written = <<>>

\* generate() failed on a read that returned fewer bytes than the size,
\* in a forest where every node has its name and srcPath.
C16_Witness ==
  /\ gen.status = "error"
  /\ gen.err = "assert: source length"
  /\ \A h \in Walked : ~Unnamed(h) /\ ~Unplaced(h)
  /\ \E i \in ReadsOf : Length(events[i].data) < nodes[events[i].h].data.size

\* Every node walked has a name and a srcPath, and every file the size it
\* has on disk.
WellFormed ==
  \A h \in Walked :
    /\ ~Unnamed(h) /\ ~Unplaced(h)
    /\ IsFile(h) => nodes[h].data.size = DiskLength(nodes[h].srcPath)
EmptyFiles == { h \in FileEntries : nodes[h].data.size = 0 }

\* C19: a forest with a file of size 0 generates successfully, the reader
\* path accepts the archive, and a read of length 0 returns the empty
\* buffer without a call of fs.readSync.
C19_EmptyFile ==
  ( gen.status # "none" /\ WellFormed /\ EmptyFiles # {} ) =>
    /\ gen.status = "ok"
    /\ \A h \in EmptyFiles :
         /\ \A i \in ReadsOf : events[i].h = h => events[i].data = <<>>
         /\ \A i \in 1..Len(events) :
              events[i].op = "readSync" => events[i].h # h
    /\ TocRead =>
         /\ tocResult.status = "ok"
         /\ tocResult.text = gen.tocXML

\* C19 for a forest none of whose files was placed by an earlier call.
C19_FirstGenerate ==
  (\A h \in Handles : gen.preOffsets[h] = NoOffset) => C19_EmptyFile

\* The archive of a forest with an empty file was written through file
\* readers and read back.
C19_Reached ==
  /\ gen.status = "ok"
  /\ WellFormed
  /\ EmptyFiles # {}
  /\ \E i \in ReadsOf : events[i].h \in EmptyFiles
  /\ \E i \in 1..Len(events) : events[i].op = "readSync"
  /\ reader.kind = "file"
  /\ tocResult.status = "ok"

\* What the compression service was given and what it returned during
\* generate(): the TOC and the source bytes of every file read.
Compressed ==
  { [in |-> Utf8Encode(gen.tocXML), out |-> written[2]] }
  \cup { [in |-> events[i].data, out |-> nodes[events[i].h].data.data] :
           i \in ReadsOf }
FramingLength == Length(ZlibHeader) + Length(ZlibTrailer)

WrittenOnce ==
  \A h \in Handles :
    /\ nodes[h].id # 0 => nodes'[h].id = nodes[h].id
    /\ nodes[h].data.offset # NoOffset => nodes'[h].data = nodes[h].data
\* The generate() call that has just returned made no provider call and no
\* read for a file that had its offset before the call.
NotReadAgain ==
  \A i \in 1..Len(events) :
    events[i].op \in { "provide", "read", "readSync" } =>
      gen.preOffsets[events[i].h] = NoOffset

\* C21: across the generate() calls on one XarArchive every node id and
\* every FileData offset, length, data and checksum is written at most
\* once: a node with an id keeps it, a file with an offset is not read,
\* compressed or placed again, and later calls leave its fields unchanged.
C21_WrittenOnce == [][WrittenOnce]_vars /\ []NotReadAgain

\* A generate() call returned on a forest part of which an earlier call
\* had placed, and it read the new file.
C21_Witness ==
  /\ gen.status # "none"
  /\ \E h \in FileEntries : gen.preOffsets[h] # NoOffset
  /\ \E i \in 1..Len(events) : events[i].op = "read"

\* The node a source path belongs to.
OwnerOf(path) == CHOOSE h \in Handles : nodes[h].srcPath = path
SourceCalls == { "provide", "read", "readSync" }
\* Every provider call and read of the call precedes its first write.
ReadsBeforeWrites ==
  \A i, j \in 1..Len(events) :
    (events[i].op = "write" /\ events[j].op \in SourceCalls) => j < i
\* Every file the call placed has its offset, length and two checksums.
AllPlaced ==
  \A h \in FileEntries :
    /\ nodes[h].data.offset # NoOffset
    /\ nodes[h].data.length # NoOffset
    /\ nodes[h].data.archivedChecksum # <<>>
    /\ nodes[h].data.extractedChecksum # <<>>

\* C22: within one generate() call every provider call and source read
\* comes before the first write; the source files are read in ascending
\* order of the ids of the files they belong to, each at most once; and the
\* TOC is built only when every file has its offset, length and checksums.
C22_TwoPass ==
  gen.status # "none" =>
    /\ ReadsBeforeWrites
    /\ \A i, j \in ReadsOf :
         i < j => nodes[OwnerOf(events[i].path)].id < nodes[OwnerOf(events[j].path)].id
    /\ gen.tocXML # <<>> => AllPlaced

\* C22 with the files taken as the nodes the reads fill, not as the paths
\* read.
C22_ByNode ==
  gen.status # "none" =>
    /\ ReadsBeforeWrites
    /\ \A i, j \in ReadsOf : i < j => nodes[events[i].h].id < nodes[events[j].h].id
    /\ gen.tocXML # <<>> => AllPlaced

\* The call that has just returned met a forest without stored offsets,
\* and a key of 2048 bits when signing.
FirstGenerate ==
  /\ gen.status # "none"
  /\ \A h \in Handles : gen.preOffsets[h] = NoOffset
  /\ gen.signing => SignatureLength(gen.key) = RSA_SIGNATURE_SIZE
\* heapWriter.bytesWritten before the k-th payload is written.
HeapBefore(k) == Length(Concat(SubSeq(written, 3, HeadWrites + k - 1)))
Pass4Errors == { "assert: heap offset", "assert: data length" }

\* C23: on the first generate() of a forest without pre-set offsets
\* (pre-assigned ids allowed, unsigned or signed with a 256-byte
\* signature) the assertions of the last pass never fire: before the
\* payload of each file is written the heap bytes written so far are the
\* file's offset, and the payload has the file's length.
C23_Pass4Holds ==
  FirstGenerate =>
    /\ gen.err \notin Pass4Errors
    /\ Emitted =>
         /\ Len(written) = HeadWrites + Len(gen.fileList)
         /\ \A k \in 1..Len(gen.fileList) :
              /\ HeapBefore(k) = nodes[gen.fileList[k]].data.offset
              /\ Length(written[HeadWrites + k])
                   = nodes[gen.fileList[k]].data.length

\* A first, signed generate() of the directory with a pre-assigned id
\* wrote the payloads of its two files.
C23_Witness ==
  /\ FirstGenerate
  /\ Emitted
  /\ gen.signing
  /\ Len(gen.fileList) = 2
  /\ \E h \in Handles : gen.preIds[h] # 0

RECURSIVE Mirrors(_, _)
\* The entries are those of the nodes `hs`: as many, in the same order,
\* each with the id, name and type of its node, a directory with the
\* entries of its children, a file with the fields of its FileData.
Mirrors(es, hs) ==
  /\ Len(es) = Len(hs)
  /\ \A i \in 1..Len(es) :
       /\ es[i].id = nodes[hs[i]].id
       /\ es[i].name = nodes[hs[i]].name
       /\ es[i].type = nodes[hs[i]].type
       /\ IF nodes[hs[i]].type = Directory
          THEN Mirrors(es[i].file, nodes[hs[i]].children)
          ELSE /\ es[i].file = <<>>
               /\ es[i].data.offset = nodes[hs[i]].data.offset
               /\ es[i].data.size = nodes[hs[i]].data.size
               /\ es[i].data.length = nodes[hs[i]].data.length
               /\ es[i].data.archivedChecksum = nodes[hs[i]].data.archivedChecksum
               /\ es[i].data.extractedChecksum = nodes[hs[i]].data.extractedChecksum
\* The <file> elements of the TOC text in document order, by the position
\* of their start tags.
FileTags == { i \in 1..Len(gen.tocXML) : gen.tocXML[i] = Tok("<file id=") }
NthFileTag(k) ==
  CHOOSE i \in FileTags : Cardinality({ j \in FileTags : j < i }) = k - 1
IdTextAt(p, id) == SubSeq(gen.tocXML, p + 1, p + Len(NumText(id))) = NumText(id)
\* The tokens of `part` stand in the TOC text, one after the other.
XmlHolds(part) ==
  \E p \in 1..Len(gen.tocXML) :
    SubSeq(gen.tocXML, p, p + Len(part) - 1) = part

\* C24: the TOC generate() builds mirrors the archive state: one <file>
\* element per node, nested and ordered as the forest, with the node's id,
\* name and type; the <data> of a file declares the offset, size, length
\* and checksums of its FileData; <checksum> declares offset 0 and size
\* 20; <signature>, when there, declares offset 20 and the size the heap
\* layout reserved for the signature.
C24_TocMirrors ==
  gen.tocXML # <<>> =>
    /\ gen.tocXML = buildXML(gen.toc)
    /\ Mirrors(gen.toc.file, gen.roots)
    /\ Cardinality(FileTags) = Len(Reachable)
    /\ \A k \in 1..Len(Reachable) :
         IdTextAt(NthFileTag(k), nodes[Reachable[k]].id)
    /\ \A h \in FileEntries :
         XmlHolds(<< Tok("<offset>") >> \o NumText(nodes[h].data.offset)
                  \o << Tok("</offset>"), Tok("<size>") >>
                  \o NumText(nodes[h].data.size)
                  \o << Tok("</size>"), Tok("<length>") >>
                  \o NumText(nodes[h].data.length) \o << Tok("</length>") >>)
    /\ XmlHolds(<< Tok("<checksum style=sha1>"), Tok("<size>") >> \o NumText(20)
                \o << Tok("</size>"), Tok("<offset>") >> \o NumText(0)
                \o << Tok("</offset>"), Tok("</checksum>") >>)
    /\ gen.signing =>
         /\ XmlHolds(<< Tok("<signature style=RSA>"), Tok("<offset>") >>
                     \o NumText(20) \o << Tok("</offset>"), Tok("<size>") >>
                     \o NumText(gen.toc.signature.size) \o << Tok("</size>") >>)
         /\ gen.toc.signature.size = ReservedSignatureSize(gen.signing)
         /\ ( gen.fileList # <<>>
              /\ \A h \in Handles : gen.preOffsets[h] = NoOffset ) =>
              nodes[gen.fileList[1]].data.offset
                = digestSize + gen.toc.signature.size

\* A signed TOC was built for the directory and the single file together.
C24_Witness ==
  /\ gen.tocXML # <<>>
  /\ gen.signing
  /\ Len(gen.roots) = 2
  /\ Len(Reachable) = 4
  /\ \A h \in Handles : gen.preOffsets[h] = NoOffset

RECURSIVE Subtree(_)
\* A node and everything below it.
Subtree(h) ==
  {h} \cup (IF nodes[h].type = Directory
            THEN UNION { Subtree(nodes[h].children[i]) :
                           i \in 1..Len(nodes[h].children) }
            ELSE {})
UnderRoots == UNION { Subtree(gen.roots[i]) : i \in 1..Len(gen.roots) }
\* Everything below `a` was visited before anything below `b`.
WholeBefore(a, b) ==
  \A x \in Subtree(a), y \in Subtree(b) : nodes[x].id < nodes[y].id
\* The ids the second walk gave when no node had one are the positions of
\* the nodes in the walk.
NoPresetIds == \A h \in Handles : gen.preIds[h] = 0
\* The files in the order of the walk, by those positions.
WalkRank(h) == Cardinality({ g \in FileEntries : nodes[g].id < nodes[h].id })
FileAtWalk(k) == CHOOSE h \in FileEntries : WalkRank(h) = k - 1

\* C25: the walk visits every node reachable from a root exactly once, a
\* directory before its children and the children in their given order,
\* depth first, and the path it passes with a node is the node's own
\* srcPath.
C25_Walk ==
  gen.status # "none" =>
    /\ Range(Reachable) = UnderRoots
    /\ Len(Reachable) = Cardinality(UnderRoots)
    /\ Len(gen.paths) = Cardinality(FileEntries)
    /\ NoPresetIds =>
         /\ { nodes[h].id : h \in UnderRoots } = 1..Cardinality(UnderRoots)
         /\ \A i, j \in 1..Len(gen.roots) :
              i < j => WholeBefore(gen.roots[i], gen.roots[j])
         /\ \A h \in UnderRoots :
              nodes[h].type = Directory =>
                /\ \A i \in 1..Len(nodes[h].children) :
                     nodes[h].id < nodes[nodes[h].children[i]].id
                /\ \A i, j \in 1..Len(nodes[h].children) :
                     i < j => WholeBefore(nodes[h].children[i],
                                          nodes[h].children[j])
         /\ \A k \in 1..Len(gen.paths) :
              gen.paths[k] = nodes[FileAtWalk(k)].srcPath
    /\ \A k \in 1..Len(gen.paths) :
         gen.paths[k] = nodes[SelectSeq(Reachable, IsFile)[k]].srcPath

\* The directory and the single file were walked, the single file first,
\* without pre-assigned ids.
C25_Witness ==
  /\ gen.status # "none"
  /\ NoPresetIds
  /\ gen.roots = << 4, 1 >>
  /\ Len(gen.paths) = 3

\* C26: whenever generate() raises an error, whatever the reason, no byte
\* has been written to the Writer.
C26_AllOrNothing ==
  gen.status = "error" => written = <<>> /\ gen.bytesWritten = 0

\* The heap interval the TOC declares for a file.
Interval(h) ==
  nodes[h].data.offset .. (nodes[h].data.offset + nodes[h].data.length - 1)

\* C27: for any interleaving of addFile(), setCertificates() and
\* generate() on one XarArchive every generate() call completes without an
\* assertion failure of the last pass and emits an archive in which the
\* declared offset of each file is the position of its payload in the heap
\* and no two payload intervals overlap, also when files are added or
\* signing is switched on after an earlier generate().
C27_Reuse ==
  gen.status # "none" =>
    /\ gen.err \notin Pass4Errors
    /\ Emitted =>
         /\ \A k \in 1..Len(gen.fileList) :
              HeapBefore(k) = nodes[gen.fileList[k]].data.offset
         /\ \A a, b \in FileEntries :
              a # b => Interval(a) \cap Interval(b) = {}

\* A step of open(): the reader changes.
OpenStep ==
  reader' # reader =>
    /\ reader'.open
    /\ files' = <<>>
    /\ signatureResources' = signatureResources
\* A generate() on an archive object without added files: no file is laid
\* out, the TOC has no <file> element, and the archive file is the header,
\* the TOC and the heap of the TOC checksum (and the signature).
GenerateEmptyStep ==
  (files = <<>> /\ gen' # gen /\ gen'.status # "none") =>
    /\ gen'.roots = <<>>
    /\ gen'.fileList = <<>>
    /\ \A i \in 1..Len(gen'.tocXML) : gen'.tocXML[i] # Tok("<file id=")
    /\ gen'.status = "ok" =>
         Len(written') = (IF signatureResources # NoSignature THEN 4 ELSE 3)
\* A step of tableOfContentsXML(): the call has a result.
TocStep ==
  tocResult'.status # "none" =>
    /\ files' = files
    /\ signatureResources' = signatureResources
    /\ reader' = reader
    /\ ~reader.open =>
         tocResult'.status = "error" /\ tocResult'.text = <<>>

\* C28: open() replaces the reader and empties the list of added files and
\* leaves the signature resources as they are, so that a generate() after
\* it writes an archive without <file> elements; tableOfContentsXML()
\* changes neither the file list nor the signature resources, and before
\* any open() it throws and returns no text.
C28_ReaderOperations == [][OpenStep /\ GenerateEmptyStep /\ TocStep]_vars
\* Files were added, open() emptied the list, a signed generate() wrote an
\* archive without files and tableOfContentsXML() read it back.
C28_Witness ==
  /\ reader.open
  /\ handed # {}
  /\ files = <<>>
  /\ Signing
  /\ Emitted
  /\ FileTags = {}
  /\ tocResult.status = "ok"
\* tableOfContentsXML() was called before any open() and threw.
C28_BeforeOpen ==
  /\ ~reader.open
  /\ gen.status = "ok"
  /\ tocResult.status = "error"

====
